---- MODULE Spec2Model ----
(***************************************************************************)
(* Model of the launch/landing autopilot of src/autopilot.py (class        *)
(* Autopilot) and of the landing-trajectory integration it shares with     *)
(* src/vis_landing_trajectory.py.                                          *)
(*                                                                         *)
(* Lengths are whole metres, speeds whole m/s, masses kg, times seconds.   *)
(* Inside the trajectory integration lengths are centimetres and speeds    *)
(* cm/s (fixed point standing for the floats of the source).               *)
(***************************************************************************)
EXTENDS Integers, Sequences, FiniteSets, TLC

VARIABLES
    pc,                 \* "new": fields set, initialize_vessel not yet run;
                        \* "run": in the main loop, between two ticks;
                        \* "sampling": in the stage-6 sampling loop;
                        \* "fault": an exception ended the program
    mission_stage,      \* self.mission_stage
    relative_x,         \* self.relative_x
    achieved_apoapsis,  \* self.achieved_apoapsis
    last_time_update,   \* self.last_time_update
    current_stage,      \* vessel.control.current_stage
    decoupled,          \* parts whose decoupler.decoupled is True
    active,             \* parts whose engine.active is True
    amount,             \* amount[r]: res.amount of resource entry r
    tel,                \* the telemetry read by the last handler
    trace,              \* the calls and commands of the last handler, in order
    start_stage,        \* mission_stage when the last handler started
    log,                \* the records written to flight_data.txt, in order
    traj                \* a call of the trajectory integration on its own

vars == << pc, mission_stage, relative_x, achieved_apoapsis, last_time_update,
           current_stage, decoupled, active, amount, tel, trace, start_stage,
           log, traj >>

(***************************************************************************)
(* The vehicle: vessel.parts.all and vessel.resources.all.  The stage of a *)
(* part and the part of a resource never change; a tank has stage -1.      *)
(***************************************************************************)
Parts ==
    << [kind |-> "engine",    stage |-> 2,  staged |-> FALSE],
       [kind |-> "decoupler", stage |-> 1,  staged |-> TRUE],
       [kind |-> "engine",    stage |-> 1,  staged |-> FALSE],
       [kind |-> "decoupler", stage |-> 0,  staged |-> TRUE],
       [kind |-> "engine",    stage |-> 0,  staged |-> FALSE],
       [kind |-> "tank",      stage |-> -1, staged |-> FALSE],
       [kind |-> "decoupler", stage |-> 0,  staged |-> FALSE],
       [kind |-> "decoupler", stage |-> 0,  staged |-> TRUE] >>

PartIds == 1..Len(Parts)

Resources ==
    << [name |-> "SolidFuel",  part |-> 1],
       [name |-> "LiquidFuel", part |-> 3],
       [name |-> "LiquidFuel", part |-> 6] >>

ResIds == 1..Len(Resources)

Abs(x) == IF x < 0 THEN -x ELSE x

Min(a, b) == IF a < b THEN a ELSE b

Cmd(op, part, val) == [op |-> op, part |-> part, val |-> val]

(***************************************************************************)
(* The resource queries.  amt is vessel.resources.all's amounts, cs the    *)
(* control stage.                                                          *)
(***************************************************************************)
\* A query that ignores the stage of the part that holds the resource.
RECURSIVE HasResourceAnyStageFrom(_, _, _, _)
HasResourceAnyStageFrom(i, trg_res, cs, amt) ==
    IF i > Len(Resources) THEN FALSE
    ELSE IF Resources[i].name = trg_res /\ amt[i] > 0
         THEN TRUE
         ELSE HasResourceAnyStageFrom(i + 1, trg_res, cs, amt)

RECURSIVE HasResourceFrom(_, _, _, _)
HasResourceFrom(i, trg_res, cs, amt) ==
    IF i > Len(Resources) THEN FALSE
    ELSE IF /\ Resources[i].name = trg_res
            /\ amt[i] > 0
            /\ Parts[Resources[i].part].stage = cs
         THEN TRUE
         ELSE HasResourceFrom(i + 1, trg_res, cs, amt)

has_resource(trg_res, cs, amt) == HasResourceFrom(1, trg_res, cs, amt)

RECURSIVE GetResourceFrom(_, _, _)
GetResourceFrom(i, trg_res, amt) ==
    IF i > Len(Resources) THEN 0
    ELSE (IF Resources[i].name = trg_res THEN amt[i] ELSE 0)
         + GetResourceFrom(i + 1, trg_res, amt)

get_resource(trg_res, amt) == GetResourceFrom(1, trg_res, amt)

(***************************************************************************)
(* The staging operations act on a record w of the vehicle's control       *)
(* stage (cs), decoupled decouplers (dec), active engines (act), the calls *)
(* and commands issued so far (tr) and whether an exception was raised     *)
(* (fault).                                                                *)
(***************************************************************************)
IsEngineOf(p, cs) == Parts[p].kind = "engine" /\ Parts[p].stage + 1 = cs

RECURSIVE EnginesFrom(_, _)
EnginesFrom(i, cs) ==
    IF i > Len(Parts) THEN << >>
    ELSE (IF IsEngineOf(i, cs) THEN << i >> ELSE << >>) \o EnginesFrom(i + 1, cs)

get_engines_this_stage(cs) == EnginesFrom(1, cs)

\* A condition that does not skip a decoupler already decoupled.
ShouldDecoupleAgain(p, cs, dec) ==
    /\ Parts[p].kind = "decoupler"
    /\ Parts[p].stage + 1 = cs
    /\ Parts[p].staged

ShouldDecouple(p, cs, dec) ==
    /\ Parts[p].kind = "decoupler"
    /\ Parts[p].stage + 1 = cs
    /\ p \notin dec
    /\ Parts[p].staged

\* part.decoupler.decouple(): the vehicle marks the decoupler decoupled.
Decouple(w, p) ==
    [w EXCEPT !.dec = @ \cup {p}, !.tr = Append(@, Cmd("decouple", p, 0))]

RECURSIVE DecoupleFrom(_, _)
DecoupleFrom(i, w) ==
    IF i > Len(Parts) THEN w
    ELSE DecoupleFrom(i + 1,
                      IF ShouldDecouple(i, w.cs, w.dec) THEN Decouple(w, i) ELSE w)

decouple_this_stage(w) == DecoupleFrom(1, w)

StartEngine(w, p) ==
    [w EXCEPT !.act = @ \cup {p},
              !.tr = @ \o << Cmd("thrust_limit", p, 1), Cmd("active", p, 1) >>]

RECURSIVE RunEnginesFrom(_, _)
RunEnginesFrom(i, w) ==
    IF i > Len(Parts) THEN w
    ELSE RunEnginesFrom(i + 1, IF IsEngineOf(i, w.cs) THEN StartEngine(w, i) ELSE w)

run_engines_this_stage(w) == RunEnginesFrom(1, w)

\* vessel.control.activate_next_stage(): the vehicle counts its control
\* stage down; at stage 0 there is nothing left to activate.
activate_next_stage(w) ==
    [w EXCEPT !.cs = IF @ > 0 THEN @ - 1 ELSE @,
              !.tr = Append(@, Cmd("activate_next_stage", 0, 0))]

\* A next_stage that starts the engines before it decouples.
NextStageIgnitesFirst(w, amt) ==
    LET w0 == [w EXCEPT !.tr = Append(@, Cmd("next_stage", 0, 0))]
    IN  IF ~has_resource("SolidFuel", w0.cs, amt) /\ ~has_resource("LiquidFuel", w0.cs, amt)
        THEN decouple_this_stage(run_engines_this_stage(activate_next_stage(w0)))
        ELSE w0

\* A next_stage whose guard looks at SolidFuel alone.
NextStageSolidOnly(w, amt) ==
    LET w0 == [w EXCEPT !.tr = Append(@, Cmd("next_stage", 0, 0))]
    IN  IF ~has_resource("SolidFuel", w0.cs, amt)
        THEN run_engines_this_stage(decouple_this_stage(activate_next_stage(w0)))
        ELSE w0

next_stage(w, amt) ==
    LET w0 == [w EXCEPT !.tr = Append(@, Cmd("next_stage", 0, 0))]
    IN  IF ~has_resource("SolidFuel", w0.cs, amt) /\ ~has_resource("LiquidFuel", w0.cs, amt)
        THEN run_engines_this_stage(decouple_this_stage(activate_next_stage(w0)))
        ELSE w0

Pitch(w, pitch) == [w EXCEPT !.tr = Append(@, Cmd("target_pitch_and_heading", pitch, 90))]

Throttle(w, level) == [w EXCEPT !.tr = Append(@, Cmd("throttle", 0, level))]

Fault(w) == [w EXCEPT !.fault = TRUE]

\* The stage-entry policy.  Entering stage 5 divides the velocity by its
\* norm (lines 208-213): a ZeroDivisionError when the vehicle is at rest.
on_vessel_stage_change(w, ms, t) ==
    LET w0 == [w EXCEPT !.tr = Append(@, Cmd("on_vessel_stage_change", 0, ms))]
        w1 == run_engines_this_stage(w0)
    IN  CASE ms = 0 -> Pitch(w1, 90)
          [] ms = 2 -> Throttle(Pitch(w1, 45), 1)
          [] ms = 1 -> Throttle(Pitch(w1, 45), 0)
          [] ms = 3 -> Throttle(w1, 0)
          [] ms = 5 -> IF t.horizontal_speed = 0 /\ t.vertical_speed = 0
                       THEN Fault(Throttle(w1, 0))
                       ELSE run_engines_this_stage(Throttle(Throttle(w1, 0), 0))
          [] OTHER  -> run_engines_this_stage(Throttle(w1, 1))

\* A transition predicate without the orbit shortcut that is checked first.
CanNextStageNoShortcut(ms, latch, t, cs, amt) ==
    IF ms = 0 /\ t.apoapsis > 10000 /\ ~has_resource("SolidFuel", cs, amt)
    THEN TRUE
    ELSE IF ms = 1 /\ Abs(t.apoapsis - t.altitude) < 2000
    THEN TRUE
    ELSE IF ms = 2 /\ t.apoapsis > 72000
    THEN TRUE
    ELSE IF ms = 3 /\ latch
    THEN TRUE
    ELSE IF ms = 4 /\ t.periapsis > 70000
    THEN TRUE
    ELSE FALSE

(***************************************************************************)
(* The mission-stage transition predicate.  t is the telemetry.            *)
(***************************************************************************)
can_next_stage(ms, latch, t, cs, amt) ==
    IF ms < 5 /\ t.apoapsis > 70000 /\ t.periapsis > 70000
    THEN TRUE
    ELSE IF ms = 0 /\ t.apoapsis > 10000 /\ ~has_resource("SolidFuel", cs, amt)
    THEN TRUE
    ELSE IF ms = 1 /\ Abs(t.apoapsis - t.altitude) < 2000
    THEN TRUE
    ELSE IF ms = 2 /\ t.apoapsis > 72000
    THEN TRUE
    ELSE IF ms = 3 /\ latch
    THEN TRUE
    ELSE IF ms = 4 /\ t.periapsis > 70000
    THEN TRUE
    ELSE FALSE

(***************************************************************************)
(* The landing-trajectory integration (compute_landing_loc, and            *)
(* compute_landing_trajectory of the analysis tool).  A state s holds x, y *)
(* in cm and v_x, v_y in cm/s; the air density is in 1e-4 kg/m^3, the      *)
(* accelerations in cm/s^2.  dt2 is the step in half seconds and cdA the   *)
(* product 0.5 * pod_square * Cd in hundredths.                            *)
(***************************************************************************)
RECURSIVE SqrtIter(_, _)
SqrtIter(n, r) ==
    LET r1 == (r + n \div r) \div 2
    IN  IF r1 >= r THEN r ELSE SqrtIter(n, r1)

\* math.sqrt, rounded down
Sqrt(n) == IF n = 0 THEN 0 ELSE SqrtIter(n, n)

\* 1.21325 * exp(-h / 5000) * 10^4 at h = 0, 1000, 2000, ... metres
DensityTable ==
    << 12132, 9933, 8133, 6658, 5451, 4463, 3654, 2992, 2450, 2005,
       1642, 1344, 1101, 901, 738, 604, 495, 405, 332, 271,
       222, 182, 149, 122, 100, 82, 67, 55, 45, 37,
       30, 25, 20, 17, 14, 11, 9, 7, 6, 5,
       4, 3, 3, 2, 2, 1, 1, 1, 1, 1, 1, 0 >>

\* air_density at y_m metres (y_m > 0), interpolated between the table's entries
AirDensity(y_m) ==
    LET i == y_m \div 1000 + 1
    IN  IF i + 1 > Len(DensityTable) THEN 0
        ELSE DensityTable[i]
             - ((DensityTable[i] - DensityTable[i + 1]) * (y_m % 1000)) \div 1000

\* g * kerbin_mass * 0.41 in cm km^2 / s^2
GKerbinMass == 144800372

KerbinRadius == 600000

\* g_kerbin_mass / (kerbin_radius + y)^2 * 0.41, in cm/s^2
Gravity(y_m) ==
    LET r_km == (KerbinRadius + y_m) \div 1000
    IN  GKerbinMass \div (r_km * r_km)

CdFlight == 933

CdAnalysis == 638

Sign(v) == IF v > 0 THEN 1 ELSE -1

\* a * delta_t for a step of dt2 half seconds, rounded towards zero
TimesDt(a, dt2) == IF dt2 = 2 THEN a ELSE Sign(a) * (Abs(a) \div 2)

\* A step that faults only on the division by the speed v, at rest.
StepFaultsAtRest(s) == s.v_x = 0 /\ s.v_y = 0

\* The division by v, abs(v_x) or abs(v_y) raises ZeroDivisionError when a
\* velocity component is 0.
StepFaults(s) == s.v_x = 0 \/ s.v_y = 0

\* One pass of the body of the while loop (lines 165-183): the next
\* position and velocity, or the fault.
EulerStep(s, mass, cdA, dt2) ==
    LET v      == Sqrt((Abs(s.v_x) \div 10) * (Abs(s.v_x) \div 10)
                       + (Abs(s.v_y) \div 10) * (Abs(s.v_y) \div 10))
        y_m    == s.y \div 100
        q      == (AirDensity(y_m) * v) \div 1000
        drag_x == (((q * Abs(s.v_x)) \div mass) * cdA) \div 10000
        drag_y == (((q * Abs(s.v_y)) \div mass) * cdA) \div 10000
        a_x    == -Sign(s.v_x) * drag_x
        a_y    == -Gravity(y_m) - Sign(s.v_y) * drag_y
        v_x1   == s.v_x + TimesDt(a_x, dt2)
        v_y1   == s.v_y + TimesDt(a_y, dt2)
    IN  IF StepFaults(s) THEN [s EXCEPT !.fault = TRUE]
        ELSE [x |-> s.x + TimesDt(v_x1, dt2), y |-> s.y + TimesDt(v_y1, dt2),
              v_x |-> v_x1, v_y |-> v_y1, fault |-> FALSE]

\* The while loop is left when y <= 0, or by the fault.
LoopEnded(s) == s.fault \/ s.y <= 0

\* The while loop is followed for at most 2^LoopDoublings passes.
LoopDoublings == 10

\* The state after at most 2^k passes of the while loop from s.
RECURSIVE RunLoop(_, _, _, _, _)
RunLoop(k, s, mass, cdA, dt2) ==
    IF LoopEnded(s) THEN s
    ELSE IF k = 0 THEN EulerStep(s, mass, cdA, dt2)
    ELSE RunLoop(k - 1, RunLoop(k - 1, s, mass, cdA, dt2), mass, cdA, dt2)

\* The integration from s: the fault, or x in metres.
Integrate(s, mass, cdA, dt2) ==
    LET e == RunLoop(LoopDoublings, s, mass, cdA, dt2)
    IN  [fault |-> e.fault, ended |-> LoopEnded(e), x |-> e.x \div 100]

(***************************************************************************)
(* Telemetry.  A reading t is what the streams and the vessel return       *)
(* during one handler.                                                     *)
(***************************************************************************)
Reading(apo, alt, peri, hs, vs, thrust, dt, warp) ==
    [apoapsis |-> apo, altitude |-> alt, periapsis |-> peri,
     horizontal_speed |-> hs, vertical_speed |-> vs, mass |-> 4000,
     available_thrust |-> thrust, elapsed |-> dt, warp_rate |-> warp]

MissionTelemetry ==
    { Reading(apo, alt, peri, 400, -20, thrust, dt, 5200) :
        apo \in {9000, 20000, 71000, 72900},
        alt \in {7000, 70980},
        peri \in {0, 70500},
        thrust \in {0, 200},
        dt \in {0, 2} }

\* Readings that vary what the ground track is computed from.
TrackTelemetry ==
    { Reading(9000, alt, 0, hs, -20, 200, dt, warp) :
        alt \in {0, 70980},
        hs \in {0, 400, 2200},
        dt \in {0, 1},
        warp \in {1, 5200, 100000} }

NoReading == Reading(0, 0, 0, 0, 0, 0, 0, 1)

Telemetry == MissionTelemetry

\* The amounts of the resource entries on the pad; an entry is full or empty.
InitialAmount == << 400, 8, 8 >>

Amounts ==
    { a \in [ResIds -> {0} \cup { InitialAmount[r] : r \in ResIds }] :
        \A r \in ResIds : a[r] \in {0, InitialAmount[r]} }

\* LiquidFuel burnt per second of the landing burn is 7.105 = 1421 / 200
BurnTime(fuel) == (fuel * 200) \div 1421

\* delta_speed of the landing burn (line 309)
DeltaSpeed(fuel, mass) == (240 * 1000 * BurnTime(fuel)) \div mass

\* compute_landing_loc is a function of the altitude, the velocity and the
\* mass alone: its value is computed once for each of the inputs that the
\* telemetry and the fuel left can produce.
LandingInputs ==
    { << t.altitude,
         t.horizontal_speed - DeltaSpeed(get_resource("LiquidFuel", a), t.mass),
         t.vertical_speed, t.mass >> : t \in Telemetry, a \in Amounts }

LandingTable ==
    [ k \in LandingInputs |->
        Integrate([x |-> 0, y |-> k[1] * 100, v_x |-> k[2] * 100,
                   v_y |-> k[3] * 100, fault |-> FALSE],
                  k[4], CdFlight, 2) ]

\* compute_landing_loc: the downrange distance in metres, or the fault
compute_landing_loc(t, delta_speed) ==
    LandingTable[<< t.altitude, t.horizontal_speed - delta_speed,
                    t.vertical_speed, t.mass >>]

(***************************************************************************)
(* The autopilot.                                                          *)
(***************************************************************************)
\* planet_radius * 2 * math.pi, in metres
PlanetLength == 3769911

Vehicle == [cs |-> current_stage, dec |-> decoupled, act |-> active,
            tr |-> << >>, fault |-> FALSE]

Control(w, op, val) == [w EXCEPT !.tr = Append(@, Cmd(op, 0, val))]

\* The while loop of initialize_vessel: r holds the vehicle (w) and the
\* mission stage (ms).
RECURSIVE SkipStages(_, _, _)
SkipStages(r, t, amt) ==
    IF ~r.w.fault /\ can_next_stage(r.ms, FALSE, t, r.w.cs, amt)
    THEN SkipStages([w  |-> on_vessel_stage_change(r.w, r.ms + 1, t),
                     ms |-> r.ms + 1], t, amt)
    ELSE r

\* An initialize_vessel that activates the next stage before it skips
\* stages too.
InitializeVesselActivatesFirst(t) ==
    LET w0 == Control(Control(Control(Control(Vehicle, "sas", 0), "rcs", 1),
                              "throttle", 1), "engage", 0)
    IN  IF ~can_next_stage(mission_stage, achieved_apoapsis, t, w0.cs, amount)
        THEN [w  |-> on_vessel_stage_change(Pitch(activate_next_stage(w0), 90),
                                            mission_stage, t),
              ms |-> mission_stage]
        ELSE SkipStages([w |-> activate_next_stage(w0), ms |-> mission_stage],
                        t, amount)

initialize_vessel(t) ==
    LET w0 == Control(Control(Control(Control(Vehicle, "sas", 0), "rcs", 1),
                              "throttle", 1), "engage", 0)
    IN  IF ~can_next_stage(mission_stage, achieved_apoapsis, t, w0.cs, amount)
        THEN [w  |-> on_vessel_stage_change(Pitch(activate_next_stage(w0), 90),
                                            mission_stage, t),
              ms |-> mission_stage]
        ELSE SkipStages([w |-> w0, ms |-> mission_stage], t, amount)

\* Autopilot.__init__ from its call of initialize_vessel on.
Construct(t) ==
    /\ pc = "new"
    /\ t.elapsed = 0
    /\ \E r \in { initialize_vessel(t) } :
           /\ pc' = IF r.w.fault THEN "fault" ELSE "run"
           /\ mission_stage' = r.ms
           /\ current_stage' = r.w.cs
           /\ decoupled' = r.w.dec
           /\ active' = r.w.act
           /\ trace' = r.w.tr
    /\ tel' = t
    /\ start_stage' = mission_stage
    /\ UNCHANGED << relative_x, achieved_apoapsis, last_time_update, amount, log,
                    traj >>

\* A ground track that takes off one circumference at most.
GroundTrackOneWrap(t) ==
    LET distance_speed == (t.horizontal_speed * KerbinRadius)
                              \div (KerbinRadius + t.altitude)
        total          == relative_x + distance_speed * t.elapsed * t.warp_rate
    IN  IF total >= PlanetLength THEN total - PlanetLength ELSE total

\* The ground track after this tick's update (lines 231-245).
GroundTrack(t) ==
    LET distance_speed == (t.horizontal_speed * KerbinRadius)
                              \div (KerbinRadius + t.altitude)
    IN  (relative_x + distance_speed * t.elapsed * t.warp_rate) % PlanetLength

\* A staging step that does not ask whether the control stage is above 0.
StagingStepAtStageZero(w, t) ==
    LET engines           == get_engines_this_stage(w.cs)
        has_engines       == mission_stage = 0 \/ Len(engines) > 0
        solids_exhausted  == mission_stage = 0
                             /\ ~has_resource("SolidFuel", w.cs, amount)
        liquids_exhausted == mission_stage # 0 /\ t.available_thrust <= 0
    IN  IF mission_stage # 0 /\ Len(engines) = 0
        THEN Fault(w)
        ELSE IF solids_exhausted \/ liquids_exhausted \/ ~has_engines
             THEN on_vessel_stage_change(next_stage(w, amount), mission_stage, t)
             ELSE w

\* A staging step that takes liquids_exhausted as false on an empty engine
\* list instead of raising IndexError.
StagingStepEmptyListGuarded(w, t) ==
    LET engines           == get_engines_this_stage(w.cs)
        has_engines       == mission_stage = 0 \/ Len(engines) > 0
        solids_exhausted  == mission_stage = 0
                             /\ ~has_resource("SolidFuel", w.cs, amount)
        liquids_exhausted == mission_stage # 0 /\ Len(engines) > 0
                             /\ t.available_thrust <= 0
        can_decouple      == w.cs > 0
    IN  IF can_decouple /\ (solids_exhausted \/ liquids_exhausted \/ ~has_engines)
        THEN on_vessel_stage_change(next_stage(w, amount), mission_stage, t)
        ELSE w

\* The exhaustion flags and the hardware staging step (lines 253-275).
\* get_engines_this_stage()[0] raises IndexError on an empty list.
StagingStep(w, t) ==
    LET engines           == get_engines_this_stage(w.cs)
        has_engines       == mission_stage = 0 \/ Len(engines) > 0
        solids_exhausted  == mission_stage = 0
                             /\ ~has_resource("SolidFuel", w.cs, amount)
        liquids_exhausted == mission_stage # 0 /\ t.available_thrust <= 0
        can_decouple      == w.cs > 0
    IN  IF mission_stage # 0 /\ Len(engines) = 0
        THEN Fault(w)
        ELSE IF can_decouple /\ (solids_exhausted \/ liquids_exhausted \/ ~has_engines)
             THEN on_vessel_stage_change(next_stage(w, amount), mission_stage, t)
             ELSE w

\* The mission-stage transition (lines 277-280).
AdvanceStep(r, t) ==
    IF can_next_stage(r.ms, achieved_apoapsis, t, r.w.cs, amount)
    THEN [w |-> on_vessel_stage_change(r.w, r.ms + 1, t), ms |-> r.ms + 1]
    ELSE r

\* A latch that follows the telemetry instead of holding.
LatchFollows(t) ==
    t.apoapsis > 70000 /\ Abs(t.altitude - t.apoapsis) < 50

\* The apoapsis latch (lines 282-288).
Latch(t) ==
    IF ~achieved_apoapsis /\ t.apoapsis > 70000 /\ Abs(t.altitude - t.apoapsis) < 50
    THEN TRUE
    ELSE achieved_apoapsis

\* A descent-burn decision that leaves the ground track out.
BurnDecisionNoTrack(t, rx) ==
    LET engine_burn_t == BurnTime(get_resource("LiquidFuel", amount))
        delta_speed   == DeltaSpeed(get_resource("LiquidFuel", amount), t.mass)
        dist_run      == engine_burn_t * t.horizontal_speed
        target        == compute_landing_loc(t, delta_speed)
    IN  [fault |-> target.fault,
         burn  |-> ~target.fault /\ PlanetLength - target.x < dist_run]

\* The descent-burn decision of stage 5 (lines 308-320).
BurnDecision(t, rx) ==
    LET engine_burn_t == BurnTime(get_resource("LiquidFuel", amount))
        delta_speed   == DeltaSpeed(get_resource("LiquidFuel", amount), t.mass)
        dist_run      == engine_burn_t * t.horizontal_speed
        target        == compute_landing_loc(t, delta_speed)
    IN  [fault |-> target.fault,
         burn  |-> ~target.fault /\ PlanetLength - target.x - rx < dist_run]

\* An attitude law whose descent-burn branch is taken at every stage from 5
\* on, so that the burn condition advances the stage again at stage 6.
AttitudeStepNoLastStage(r, t, rx, latch) ==
    LET w  == r.w
        ms == r.ms
    IN  IF ms = 0
        THEN [r EXCEPT !.w = IF t.altitude > 8000 THEN Pitch(w, 75) ELSE w]
        ELSE IF 2 < ms /\ ms < 5
        THEN [r EXCEPT !.w =
                 IF latch
                 THEN Pitch(w, IF t.vertical_speed < 0
                               THEN Min(60, Abs(t.vertical_speed) * 5) ELSE 0)
                 ELSE Pitch(w, 45)]
        ELSE IF ms >= 5
        THEN LET w5 == Control(Control(Control(w, "disengage", 0), "sas", 1),
                               "throttle", 0)
                 d  == BurnDecision(t, rx)
             IN  IF d.fault THEN [r EXCEPT !.w = Fault(w5)]
                 ELSE [w |-> w5, ms |-> IF d.burn THEN ms + 1 ELSE ms]
        ELSE r

\* The attitude law by stage (lines 289-336); r.ms is the stage after the
\* transition check, rx the updated ground track.
AttitudeStep(r, t, rx, latch) ==
    LET w  == r.w
        ms == r.ms
    IN  IF ms = 0
        THEN [r EXCEPT !.w = IF t.altitude > 8000 THEN Pitch(w, 75) ELSE w]
        ELSE IF 2 < ms /\ ms < 5
        THEN [r EXCEPT !.w =
                 IF latch
                 THEN Pitch(w, IF t.vertical_speed < 0
                               THEN Min(60, Abs(t.vertical_speed) * 5) ELSE 0)
                 ELSE Pitch(w, 45)]
        ELSE IF ms = 5
        THEN LET w5 == Control(Control(Control(w, "disengage", 0), "sas", 1),
                               "throttle", 0)
                 d  == BurnDecision(t, rx)
             IN  IF d.fault THEN [r EXCEPT !.w = Fault(w5)]
                 ELSE [w |-> w5, ms |-> IF d.burn THEN ms + 1 ELSE ms]
        ELSE IF ms = 6
        THEN [r EXCEPT !.w = Control(Control(run_engines_this_stage(w),
                                             "throttle", 1), "disengage", 0)]
        ELSE r

\* Whether the stage-6 branch enters the sampling loop (line 327).
EntersSampling(r) == r.ms = 6 /\ Len(get_engines_this_stage(r.w.cs)) = 0

\* The wall clock (time.time()) is followed for MaxTime seconds; after that
\* no time elapses between two ticks.
MaxTime == 2

\* At most MaxLog records of the sampling loop are followed.
MaxLog == 2

\* The body of tick: the fields, the vehicle and the program position it
\* leaves behind.  An exception ends the tick where it is raised.
TickResult(t) ==
    LET rx    == GroundTrack(t)
        w1    == StagingStep(Vehicle, t)
        r2    == IF w1.fault THEN [w |-> w1, ms |-> mission_stage]
                 ELSE AdvanceStep([w |-> w1, ms |-> mission_stage], t)
        latch == IF r2.w.fault THEN achieved_apoapsis ELSE Latch(t)
        r3    == IF r2.w.fault THEN r2 ELSE AttitudeStep(r2, t, rx, latch)
    IN  [relative_x |-> rx, achieved_apoapsis |-> latch, ms |-> r3.ms, w |-> r3.w,
         pc |-> IF r3.w.fault THEN "fault"
                ELSE IF r2.ms = 6 /\ EntersSampling(r3) THEN "sampling"
                ELSE "run"]

\* Autopilot.tick: one pass of the main loop.
Tick(t) ==
    /\ pc = "run"
    /\ last_time_update + t.elapsed <= MaxTime
    /\ \E r \in { TickResult(t) } :
           /\ relative_x' = r.relative_x
           /\ last_time_update' = last_time_update + t.elapsed
           /\ achieved_apoapsis' = r.achieved_apoapsis
           /\ mission_stage' = r.ms
           /\ current_stage' = r.w.cs
           /\ decoupled' = r.w.dec
           /\ active' = r.w.act
           /\ trace' = r.w.tr
           /\ pc' = r.pc
    /\ tel' = t
    /\ start_stage' = mission_stage
    /\ UNCHANGED << amount, log, traj >>

\* The readings taken in the sampling loop.
SampleTelemetry ==
    { Reading(9000, alt, 0, 400, -20, 0, 0, 1) : alt \in {0, 7000} }

\* step_metrics: the record of one sample; of its fields the model keeps
\* those that the readings carry.
step_metrics(t) ==
    [horizontal_speed |-> t.horizontal_speed, vertical_speed |-> t.vertical_speed,
     altitude |-> t.altitude, mass |-> t.mass]

\* A sampling pass that writes the file anew instead of appending to it.
SampleRewrites(t) ==
    /\ pc = "sampling"
    /\ Len(log) < MaxLog
    /\ log' = << step_metrics(t) >>
    /\ UNCHANGED << pc, mission_stage, relative_x, achieved_apoapsis,
                    last_time_update, current_stage, decoupled, active, amount,
                    tel, trace, start_stage, traj >>

\* One pass of the sampling loop of stage 6 (lines 333-336); the file is
\* open in append mode.
Sample(t) ==
    /\ pc = "sampling"
    /\ Len(log) < MaxLog
    /\ log' = Append(log, step_metrics(t))
    /\ UNCHANGED << pc, mission_stage, relative_x, achieved_apoapsis,
                    last_time_update, current_stage, decoupled, active, amount,
                    tel, trace, start_stage, traj >>

\* The vehicle burns a resource entry empty between two ticks.
Consume(r) ==
    /\ pc = "run"
    /\ amount[r] > 0
    /\ amount' = [amount EXCEPT ![r] = 0]
    /\ UNCHANGED << pc, mission_stage, relative_x, achieved_apoapsis,
                    last_time_update, current_stage, decoupled, active,
                    tel, trace, start_stage, log, traj >>

NoCall == [phase |-> "idle"]

Init ==
    /\ pc = "new"
    /\ mission_stage = 0
    /\ relative_x = 0
    /\ achieved_apoapsis = FALSE
    /\ last_time_update = 0
    /\ current_stage = Parts[1].stage + 1
    /\ decoupled = {}
    /\ active = {}
    /\ amount = InitialAmount
    /\ tel = NoReading
    /\ trace = << >>
    /\ start_stage = 0
    /\ log = << >>
    /\ traj = NoCall

Next ==
    \/ \E t \in MissionTelemetry : Construct(t)
    \/ \E t \in MissionTelemetry : Tick(t)
    \/ \E r \in ResIds : Consume(r)
    \/ \E t \in SampleTelemetry : Sample(t)

\* The autopilot from its construction on, under the mission's telemetry.
Spec == Init /\ [][Next]_vars

NextTrack ==
    \/ \E t \in TrackTelemetry : Construct(t)
    \/ \E t \in TrackTelemetry : Tick(t)

\* The autopilot under readings that vary the ground track.
SpecTrack == Init /\ [][NextTrack]_vars

(***************************************************************************)
(* The trajectory integration called on its own, one pass of its while     *)
(* loop at a time.                                                         *)
(***************************************************************************)
\* compute_landing_loc (variant "flight": Cd 0.95, delta_t 1) or
\* compute_landing_trajectory (variant "analysis": Cd 0.65, delta_t 0.5) is
\* called at altitude alt with velocity (hs, vs); lines 151-163.
TrajCall(variant, alt, hs, vs, mass) ==
    /\ traj.phase = "idle"
    /\ traj' = [phase |-> "loop", variant |-> variant, altitude |-> alt,
                horizontal_speed |-> hs, vertical_speed |-> vs, mass |-> mass,
                cdA |-> IF variant = "flight" THEN CdFlight ELSE CdAnalysis,
                dt2 |-> IF variant = "flight" THEN 2 ELSE 1,
                n |-> 0,
                s |-> [x |-> 0, y |-> alt * 100, v_x |-> hs * 100,
                       v_y |-> vs * 100, fault |-> FALSE]]
    /\ UNCHANGED << pc, mission_stage, relative_x, achieved_apoapsis,
                    last_time_update, current_stage, decoupled, active, amount,
                    tel, trace, start_stage, log >>

\* One pass of the while loop, which may raise ZeroDivisionError.
TrajStep ==
    /\ traj.phase = "loop"
    /\ traj.s.y > 0
    /\ traj.n < 2 ^ LoopDoublings
    /\ \E e \in { EulerStep(traj.s, traj.mass, traj.cdA, traj.dt2) } :
           traj' = [traj EXCEPT !.s = e, !.n = @ + 1,
                                !.phase = IF e.fault THEN "faulted" ELSE "loop"]
    /\ UNCHANGED << pc, mission_stage, relative_x, achieved_apoapsis,
                    last_time_update, current_stage, decoupled, active, amount,
                    tel, trace, start_stage, log >>

\* The loop is left and the function returns.
TrajReturn ==
    /\ traj.phase = "loop"
    /\ traj.s.y <= 0
    /\ traj' = [traj EXCEPT !.phase = "returned"]
    /\ UNCHANGED << pc, mission_stage, relative_x, achieved_apoapsis,
                    last_time_update, current_stage, decoupled, active, amount,
                    tel, trace, start_stage, log >>

NextTraj ==
    \/ \E variant \in {"flight", "analysis"}, alt \in {-100, 0, 500, 1000},
          hs \in {-100, 0, 30, 100}, vs \in {-50, -1, 0, 30},
          mass \in {1000, 4000} :
          TrajCall(variant, alt, hs, vs, mass)
    \/ TrajStep
    \/ TrajReturn

SpecTraj == Init /\ [][NextTraj]_vars

(***************************************************************************)
(* Properties.                                                             *)
(***************************************************************************)
\* C1: through the construction's stage skipping and every tick, under any
\* telemetry, the mission stage never decreases and stays within 0..6.
C1_StageMonotoneInRange ==
    /\ mission_stage \in 0..6
    /\ [][mission_stage' >= mission_stage /\ mission_stage' \in 0..6]_vars

\* C1 happens: a tick has advanced the mission stage to the last one, 6.
C1_Witness == pc = "run" /\ mission_stage = 6 /\ start_stage < 6

\* C2: a single tick advances the mission stage by at most 1, also when it
\* enters stage 5 while the descent-burn condition already holds.
C2_TickAdvancesAtMostOne ==
    [][pc = "run" => mission_stage' \in {mission_stage, mission_stage + 1}]_vars

\* C3: the apoapsis latch starts false, becomes true only in a tick whose
\* telemetry has apoapsis > 70000 and |altitude - apoapsis| < 50, and once
\* true stays true whatever the later telemetry.
C3_LatchOneWay ==
    /\ ~achieved_apoapsis
    /\ [][/\ achieved_apoapsis => achieved_apoapsis'
          /\ ~achieved_apoapsis /\ achieved_apoapsis'
                => /\ pc = "run"
                   /\ tel'.apoapsis > 70000
                   /\ Abs(tel'.altitude - tel'.apoapsis) < 50]_vars

\* C3 happens: the latch is set and the last tick read an apoapsis that has
\* dropped below 70000.
C3_Witness == achieved_apoapsis /\ pc = "run" /\ tel.apoapsis < 70000

\* The resource names asked for, and one that no entry carries.
ResourceNames == {"SolidFuel", "LiquidFuel", "Oxidizer"}

\* The sum of amt over the resource entries in S.
RECURSIVE SumAmounts(_, _)
SumAmounts(S, amt) ==
    IF S = {} THEN 0
    ELSE LET r == CHOOSE x \in S : TRUE
         IN  amt[r] + SumAmounts(S \ {r}, amt)

\* C4: has_resource(name) is true exactly when some entry has that name, a
\* positive amount and a part whose stage is the current control stage (so
\* fuel held only in parts of other stages does not count), while
\* get_resource(name) sums the amounts over the parts of all stages.
C4_ResourceScoping ==
    \A n \in ResourceNames :
        /\ has_resource(n, current_stage, amount)
              <=> \E r \in ResIds : /\ Resources[r].name = n
                                    /\ amount[r] > 0
                                    /\ Parts[Resources[r].part].stage = current_stage
        /\ get_resource(n, amount)
              = SumAmounts({ r \in ResIds : Resources[r].name = n }, amount)

\* C4 happens: between two ticks LiquidFuel is left only in parts of other
\* stages, has_resource denies it and get_resource counts it.
C4_Witness ==
    /\ pc = "run"
    /\ mission_stage > 0
    /\ ~has_resource("LiquidFuel", current_stage, amount)
    /\ get_resource("LiquidFuel", amount) > 0

\* A step of the program that is a tick: between two ticks only the vehicle
\* acts, and it changes an amount.
IsTick == pc = "run" /\ amount' = amount

\* The indices of the decouple commands in tr.
DecoupleCommands(tr) == { i \in DOMAIN tr : tr[i].op = "decouple" }

\* C5: decouple_this_stage called twice in a row, the control stage
\* unchanged, issues at most one decouple command per part, and a decouple
\* command only ever goes to a staged decoupler, not yet decoupled, whose
\* part.stage + 1 is the current control stage.
C5_DecoupleIdempotent ==
    /\ [](LET once  == decouple_this_stage(Vehicle)
              twice == decouple_this_stage(once)
          IN  /\ \A i, j \in DOMAIN twice.tr :
                    twice.tr[i].part = twice.tr[j].part => i = j
              /\ \A i \in DOMAIN twice.tr :
                    /\ twice.tr[i].op = "decouple"
                    /\ Parts[twice.tr[i].part].kind = "decoupler"
                    /\ Parts[twice.tr[i].part].staged
                    /\ twice.tr[i].part \notin decoupled
                    /\ Parts[twice.tr[i].part].stage + 1 = current_stage)
    /\ [][IsTick => \A i \in DecoupleCommands(trace') :
             /\ \A j \in DecoupleCommands(trace') :
                   trace'[i].part = trace'[j].part => i = j
             /\ Parts[trace'[i].part].kind = "decoupler"
             /\ Parts[trace'[i].part].staged
             /\ trace'[i].part \notin decoupled
             /\ trace'[i].part \in decoupled'
             /\ Parts[trace'[i].part].stage + 1 = current_stage']_vars

\* C5 happens: the last tick decoupled two parts, and another decoupler of
\* the same stage, not staged, was left alone.
C5_Witness ==
    /\ Cardinality(DecoupleCommands(trace)) = 2
    /\ \E p \in PartIds : /\ Parts[p].kind = "decoupler"
                          /\ Parts[p].stage + 1 = current_stage
                          /\ p \notin decoupled

\* tick calls next_stage before anything else it sends to the vehicle.
CalledNextStage(tr) == tr # << >> /\ tr[1].op = "next_stage"

\* The commands of that call of next_stage: what tr holds between the call
\* and the call of on_vessel_stage_change that follows it.
NextStageCommands(tr) ==
    LET k == CHOOSE i \in DOMAIN tr :
                 /\ tr[i].op = "on_vessel_stage_change"
                 /\ \A j \in 1..(i - 1) : tr[j].op # "on_vessel_stage_change"
    IN  SubSeq(tr, 2, k - 1)

EngineOps == {"thrust_limit", "active"}

\* C6: when next_stage acts, it sends the next-stage activation first, then
\* all its decouple commands, then the engine commands: no engine command
\* comes before a decouple command and no decouple before the activation.
C6_NextStageOrder ==
    CalledNextStage(trace) /\ NextStageCommands(trace) # << >>
        => LET c == NextStageCommands(trace)
           IN  /\ c[1].op = "activate_next_stage"
               /\ \A i \in 2..Len(c) : c[i].op \in EngineOps \cup {"decouple"}
               /\ \A i, j \in 2..Len(c) :
                     c[i].op \in EngineOps /\ c[j].op = "decouple" => j < i

\* C6 happens: a call of next_stage has decoupled and has started an engine.
C6_Witness ==
    /\ CalledNextStage(trace)
    /\ \E i, j \in DOMAIN NextStageCommands(trace) :
           /\ NextStageCommands(trace)[i].op = "decouple"
           /\ NextStageCommands(trace)[j].op = "active"

HasFuel(cs, amt) ==
    has_resource("SolidFuel", cs, amt) \/ has_resource("LiquidFuel", cs, amt)

\* C7: next_stage sends its activation, decouple and engine commands only
\* when the current control stage holds neither SolidFuel nor LiquidFuel;
\* with either present it sends nothing and leaves the control stage and
\* the parts as they are.
C7_NextStageGuard ==
    /\ [](LET w == next_stage(Vehicle, amount)
          IN  IF HasFuel(current_stage, amount)
              THEN w = [Vehicle EXCEPT !.tr = << Cmd("next_stage", 0, 0) >>]
              ELSE Len(w.tr) > 1 /\ w.tr[2].op = "activate_next_stage")
    /\ [][IsTick /\ CalledNextStage(trace')
            => IF HasFuel(current_stage, amount)
               THEN /\ NextStageCommands(trace') = << >>
                    /\ current_stage' = current_stage
                    /\ decoupled' = decoupled
               ELSE /\ NextStageCommands(trace') # << >>
                    /\ NextStageCommands(trace')[1].op = "activate_next_stage"]_vars

\* C7 happens: the last tick called next_stage with LiquidFuel left in the
\* current control stage, and next_stage sent nothing.
C7_Witness ==
    /\ CalledNextStage(trace)
    /\ NextStageCommands(trace) = << >>
    /\ has_resource("LiquidFuel", current_stage, amount)

\* horizontal_speed * distance_scale * elapsed time * warp_rate of a reading
Increment(t) ==
    ((t.horizontal_speed * KerbinRadius) \div (KerbinRadius + t.altitude))
        * t.elapsed * t.warp_rate

\* C8: after every tick relative_x lies in [0, circumference) and is the
\* previous relative_x plus horizontal_speed * distance_scale * elapsed time
\* * warp_rate, less a whole number of circumferences, also when the
\* increment is more than one circumference.
C8_GroundTrackWraps ==
    /\ [](0 <= relative_x /\ relative_x < PlanetLength)
    /\ [][IsTick =>
            \E k \in 0..((relative_x + Increment(tel')) \div PlanetLength) :
                relative_x + Increment(tel') = relative_x' + k * PlanetLength]_vars

\* C8 happens: a tick has added more than two circumferences to a ground
\* track that was not 0.
C8_Witness ==
    /\ last_time_update > 1
    /\ Increment(tel) > 2 * PlanetLength
    /\ relative_x > Increment(tel) % PlanetLength

\* traj is a call of the integration with these arguments.
IsCall(variant, alt, hs, vs, mass) ==
    /\ traj.phase # "idle"
    /\ traj.variant = variant
    /\ traj.altitude = alt
    /\ traj.horizontal_speed = hs
    /\ traj.vertical_speed = vs
    /\ traj.mass = mass

\* The whole seconds a fall from rest at alt metres takes without drag.
ZeroDragFallTime(alt) ==
    CHOOSE n \in 1..(2 ^ LoopDoublings) :
        /\ Gravity(alt) * n * n >= 2 * alt * 100
        /\ \A m \in 1..(n - 1) : Gravity(alt) * m * m < 2 * alt * 100

\* The call with these arguments raises no fault, leaves its loop within the
\* passes followed, and returns with y <= 0 a positive downrange below the
\* drag-free one, hs * time to fall.
PredictorReturns(alt, hs, vs, mass) ==
    IsCall("flight", alt, hs, vs, mass)
        => /\ traj.phase # "faulted"
           /\ traj.phase = "loop" /\ traj.s.y > 0 => traj.n < 2 ^ LoopDoublings
           /\ traj.phase = "returned"
                 => /\ traj.s.y <= 0
                    /\ 0 < traj.s.x
                    /\ traj.s.x < hs * 100 * ZeroDragFallTime(alt)

\* C9: the predictor started at altitude 1000 with horizontal velocity 100,
\* vertical velocity 0 and mass 1000 (Cd 0.95, dt 1, no speed delta) ends
\* after a bounded number of Euler steps with y <= 0 and returns a positive
\* downrange smaller than the drag-free vx * time-to-fall, raising no fault.
C9_PredictorOnExample == PredictorReturns(1000, 100, 0, 1000)

\* The condition of mission stage ms alone.
StageCondition(ms, latch, t, cs, amt) ==
    CASE ms = 0 -> t.apoapsis > 10000 /\ ~has_resource("SolidFuel", cs, amt)
      [] ms = 1 -> Abs(t.apoapsis - t.altitude) < 2000
      [] ms = 2 -> t.apoapsis > 72000
      [] ms = 3 -> latch
      [] ms = 4 -> t.periapsis > 70000
      [] OTHER  -> FALSE

\* C10: can_next_stage is true exactly when (stage < 5, apoapsis > 70000 and
\* periapsis > 70000) or the condition of the current stage holds; the
\* first rule makes it true at stages 0..4 even when the stage's own
\* condition is false, and it is false on every input at stages 5 and 6.
C10_CanNextStageExact ==
    \A t \in MissionTelemetry, ms \in 0..6, latch \in BOOLEAN :
        LET can     == can_next_stage(ms, latch, t, current_stage, amount)
            generic == ms < 5 /\ t.apoapsis > 70000 /\ t.periapsis > 70000
        IN  /\ can <=> generic \/ StageCondition(ms, latch, t, current_stage, amount)
            /\ generic /\ ms \in 0..4 => can
            /\ ms \in {5, 6} => ~can

\* C10 happens: a tick that started at stage 3 with the latch not set, where
\* stage 3's own condition is false, has advanced on the first rule.
C10_Witness ==
    /\ pc = "run"
    /\ start_stage = 3
    /\ mission_stage = 4
    /\ ~achieved_apoapsis
    /\ tel.apoapsis > 70000
    /\ tel.periapsis > 70000

\* The indices in tr of the applications of the stage-entry policy for
\* mission stage ms.
PolicyApplications(tr, ms) ==
    { i \in DOMAIN tr : tr[i].op = "on_vessel_stage_change" /\ tr[i].val = ms }

\* C11: every increment of the mission stage comes, in the same tick, with
\* exactly one application of the stage-entry policy for the stage entered,
\* for all transitions 0->1 ... 5->6, the descent-burn one included.
C11_PolicyOncePerAdvance ==
    [][IsTick =>
          \A ms \in (mission_stage + 1)..mission_stage' :
              Cardinality(PolicyApplications(trace', ms)) = 1]_vars

\* The call of next_stage and the commands only next_stage sends.
StagingOps == {"next_stage", "activate_next_stage", "decouple"}

\* C12: in every tick the transition predicate is evaluated, and the stage
\* advance it grants applied, before anything else the tick does: before
\* the exhaustion/decouple check and before any hardware staging command.
C12_AdvanceBeforeStaging ==
    [][IsTick =>
          \A i \in PolicyApplications(trace', mission_stage + 1) :
              \A j \in 1..(i - 1) : trace'[j].op \notin StagingOps]_vars

\* C13: a tick that starts at a mission stage other than 0 with no engine
\* in the current control stage takes liquids_exhausted as false without a
\* fault and, when the control stage is above 0, performs the hardware
\* staging step because has_engines is false: the tick never aborts on the
\* empty engine list.
C13_NoFaultOnEmptyEngineList ==
    [][IsTick /\ mission_stage # 0 /\ get_engines_this_stage(current_stage) = << >>
          => /\ pc' # "fault"
             /\ current_stage > 0 => CalledNextStage(trace')]_vars

\* The attitude target that tr leaves commanded is (pitch, 90): tr holds an
\* attitude command and its last one has this pitch.
EndsWithPitch(tr, pitch) ==
    \E i \in DOMAIN tr :
        /\ tr[i] = Cmd("target_pitch_and_heading", pitch, 90)
        /\ \A j \in (i + 1)..Len(tr) : tr[j].op # "target_pitch_and_heading"

\* The pitch of the attitude law of the orbital stages.
LawPitch(latch, t) ==
    IF ~latch THEN 45
    ELSE IF t.vertical_speed < 0 THEN Min(60, 5 * Abs(t.vertical_speed))
    ELSE 0

\* The attitude law holds in the stages of S: a tick that ends its
\* transition check in one of them ends by commanding the law's pitch, and
\* one in stage 0 ends by commanding pitch 75 exactly when altitude > 8000.
AttitudeLawIn(S) ==
    IsTick /\ pc' # "fault"
        => /\ mission_stage' \in S
                => EndsWithPitch(trace', LawPitch(achieved_apoapsis', tel'))
           /\ mission_stage' = 0
                => (EndsWithPitch(trace', 75) <=> tel'.altitude > 8000)

\* C14: the per-tick attitude law covers mission stages 2, 3 and 4 (pitch
\* 45 while the latch is not set; with the latch set min(60, 5 * |vertical
\* speed|) when the vertical speed is negative and 0 otherwise), and in
\* stage 0 commands pitch 75 exactly when altitude > 8000.
C14_AttitudeLawStages == [][AttitudeLawIn({2, 3, 4})]_vars

\* The LiquidFuel of all stages.
TotalLiquidFuel(amt) ==
    SumAmounts({ r \in ResIds : Resources[r].name = "LiquidFuel" }, amt)

\* circumference - targetDownrange - relative_x < burnDistance, for the
\* reading t, the ground track rx and the amounts amt.
BurnCondition(t, rx, amt) ==
    LET burnTime    == BurnTime(TotalLiquidFuel(amt))
        speedDelta  == DeltaSpeed(TotalLiquidFuel(amt), t.mass)
        burnDist    == burnTime * t.horizontal_speed
        targetRange == compute_landing_loc(t, speedDelta).x
    IN  PlanetLength - targetRange - rx < burnDist

\* This tick's transition check ends in stage 5: the tick starts there, or
\* enters it.
ChecksOutInFive ==
    \/ mission_stage = 5
    \/ mission_stage < 5 /\ PolicyApplications(trace', 5) # {}

\* The throttle that tr leaves commanded is level.
EndsWithThrottle(tr, level) ==
    \E i \in DOMAIN tr :
        /\ tr[i] = Cmd("throttle", 0, level)
        /\ \A j \in (i + 1)..Len(tr) : tr[j].op # "throttle"

\* C15: the mission stage goes from 5 to 6 only in the stage-5 branch of a
\* tick and exactly when circumference - targetDownrange - relative_x <
\* burnDistance (burnTime = total LiquidFuel / 7.105, speedDelta = 240000 *
\* burnTime / mass, burnDistance = burnTime * horizontal speed); while the
\* inequality is false a tick in stage 5 stays in stage 5 with throttle 0.
C15_BurnDecision ==
    [][IsTick /\ pc' # "fault"
          => /\ mission_stage' = 6 /\ mission_stage # 6
                  => ChecksOutInFive /\ BurnCondition(tel', relative_x', amount)
             /\ ChecksOutInFive
                  => IF BurnCondition(tel', relative_x', amount)
                     THEN mission_stage' = 6
                     ELSE mission_stage' = 5 /\ EndsWithThrottle(trace', 0)]_vars

\* C15 happens: a tick that started in stage 5, after a tick that left the
\* stage at 5, has found the inequality true and moved to stage 6.
C15_Witness ==
    /\ pc = "run"
    /\ start_stage = 5
    /\ mission_stage = 6
    /\ BurnCondition(tel, relative_x, amount)
    /\ ~BurnCondition(tel, 0, amount)

\* The condition of the hardware staging step at mission stage ms, control
\* stage cs, under the reading t.
StagingDue(ms, cs, t, amt) ==
    LET hasEngines       == ms = 0 \/ get_engines_this_stage(cs) # << >>
        solidsExhausted  == ms = 0 /\ ~has_resource("SolidFuel", cs, amt)
        liquidsExhausted == ms # 0 /\ t.available_thrust <= 0
    IN  cs > 0 /\ (solidsExhausted \/ liquidsExhausted \/ ~hasEngines)

\* C16: the hardware staging step of a tick (next_stage, then the stage-entry
\* policy again) is taken only when the control stage is above 0 and
\* (solids exhausted or liquids exhausted or no engines); it changes
\* neither mission_stage nor achieved_apoapsis nor relative_x, which change
\* in such a tick only by the transition check, the latch condition and the
\* ground-track increment; at control stage 0 a tick sends no activation
\* and no decouple command.
C16_StagingIsNotTransition ==
    [][IsTick =>
          /\ CalledNextStage(trace')
                => /\ StagingDue(mission_stage, current_stage, tel', amount)
                   /\ PolicyApplications(trace', mission_stage) # {}
                   /\ \/ mission_stage' = mission_stage
                      \/ can_next_stage(mission_stage, achieved_apoapsis, tel',
                                        current_stage', amount)
                      \/ ChecksOutInFive
                   /\ \/ achieved_apoapsis' = achieved_apoapsis
                      \/ tel'.apoapsis > 70000
                            /\ Abs(tel'.altitude - tel'.apoapsis) < 50
                   /\ Increment(tel') = 0 => relative_x' = relative_x
          /\ current_stage = 0
                => \A i \in DOMAIN trace' :
                       trace'[i].op \notin {"activate_next_stage", "decouple"}]_vars

\* C16 happens: a tick has staged the hardware (activation, decouple,
\* ignition) and has left the mission stage, above 0, where it was.
C16_Witness ==
    /\ pc = "run"
    /\ CalledNextStage(trace)
    /\ DecoupleCommands(trace) # {}
    /\ mission_stage = start_stage
    /\ mission_stage > 0

\* C17: the sampling loop of stage 6 is never left: from then on the mission
\* stage is 6, nothing is commanded, no tick starts, and each sampling step
\* appends exactly one record to the log and leaves the earlier ones as
\* they are.
C17_SamplingAbsorbing ==
    [][pc = "sampling"
          => /\ pc' = "sampling"
             /\ mission_stage = 6 /\ mission_stage' = 6
             /\ UNCHANGED << trace, current_stage, decoupled, active >>
             /\ UNCHANGED << tel, start_stage, last_time_update, relative_x,
                             achieved_apoapsis >>
             /\ Len(log') = Len(log) + 1
             /\ SubSeq(log', 1, Len(log)) = log]_vars

\* C17 happens: the sampling loop has written a second record after a
\* first, different one.
C17_Witness ==
    /\ pc = "sampling"
    /\ Len(log) = 2
    /\ log[1] # log[2]

\* C18: the integration, in the flight and in the analysis variant, raises
\* the division-by-zero fault instead of returning whenever a step starts
\* with y > 0 and a horizontal or vertical velocity of exactly 0; started
\* at an altitude <= 0 it runs no step, and the flight predictor returns 0.
C18_ZeroVelocityFaults ==
    /\ [](traj.phase # "idle" /\ traj.altitude <= 0
            => /\ traj.n = 0
               /\ traj.phase \in {"loop", "returned"}
               /\ traj.s.x = 0)
    /\ [][traj.phase = "loop" /\ traj.s.y > 0
             /\ (traj.s.v_x = 0 \/ traj.s.v_y = 0)
           => traj'.phase = "faulted" /\ traj'.s.x = traj.s.x]_vars

\* C18 happens: a call of the analysis variant that started above the
\* ground with no horizontal velocity, falling, has ended in the fault.
C18_Witness ==
    /\ traj.phase = "faulted"
    /\ traj.variant = "analysis"
    /\ traj.s.y > 0
    /\ traj.s.v_x = 0
    /\ traj.s.v_y < 0

\* C19: the sampling loop is entered only in a tick that starts in mission
\* stage 6 with an engine in the current control stage and in which
\* next_stage's activation changes the control stage to one with no
\* engine; a tick that starts in stage 6 with no engine in the control
\* stage faults before it reaches the sampling loop.
C19_SamplingEntry ==
    [][/\ pc = "run" /\ pc' = "sampling"
            => /\ mission_stage = 6
               /\ get_engines_this_stage(current_stage) # << >>
               /\ CalledNextStage(trace')
               /\ NextStageCommands(trace') # << >>
               /\ NextStageCommands(trace')[1].op = "activate_next_stage"
               /\ current_stage' # current_stage
               /\ get_engines_this_stage(current_stage') = << >>
       /\ IsTick /\ mission_stage = 6
            /\ get_engines_this_stage(current_stage) = << >>
            => pc' = "fault"]_vars

\* C19 happens: a tick that started in stage 6 has just entered the
\* sampling loop, no record written yet.
C19_Witness ==
    /\ pc = "sampling"
    /\ log = << >>
    /\ start_stage = 6
    /\ CalledNextStage(trace)

\* The indices in tr of the next-stage activations.
Activations(tr) == { i \in DOMAIN tr : tr[i].op = "activate_next_stage" }

\* The indices in tr of all applications of the stage-entry policy.
AllPolicyApplications(tr) ==
    { i \in DOMAIN tr : tr[i].op = "on_vessel_stage_change" }

\* C20: construction ends under the telemetry it reads: when can_next_stage
\* is false it sends exactly one next-stage activation, sets pitch 90 /
\* heading 90 and leaves mission stage 0; otherwise it sends no activation
\* and increments the mission stage, applying the stage-entry policy once
\* for each increment, until can_next_stage is false, which leaves a
\* mission stage of at most 5.
C20_ConstructionEnds ==
    [][pc = "new"
          => /\ pc' \in {"run", "fault"}
             /\ mission_stage' <= 5
             /\ IF ~can_next_stage(0, FALSE, tel', current_stage, amount)
                THEN /\ Cardinality(Activations(trace')) = 1
                     /\ EndsWithPitch(trace', 90)
                     /\ mission_stage' = 0
                ELSE /\ Activations(trace') = {}
                     /\ current_stage' = current_stage
                     /\ mission_stage' >= 1
                     /\ \A ms \in 0..(mission_stage' - 1) :
                           can_next_stage(ms, FALSE, tel', current_stage, amount)
                     /\ ~can_next_stage(mission_stage', FALSE, tel',
                                        current_stage, amount)
                     /\ \A ms \in 1..mission_stage' :
                           Cardinality(PolicyApplications(trace', ms)) = 1
                     /\ Cardinality(AllPolicyApplications(trace'))
                           = mission_stage']_vars

\* C20 happens: construction has skipped to mission stage 3 and stopped
\* there, where the telemetry would have allowed stage 2's transition.
C20_Witness ==
    /\ trace # << >>
    /\ trace[1] = Cmd("sas", 0, 0)
    /\ mission_stage = 3
    /\ tel.apoapsis > 72000

====
